---- MODULE Spec2Model ----
(***************************************************************************)
(* The match session of the landlord card game client (class Game of       *)
(* src/unnamed/part_003): the fields of Game, the observer store, the       *)
(* pending Phaser timer events and the handlers of inbound messages,       *)
(* together with the socket it talks through (class Socket of              *)
(* src/unnamed/part_000) and the play prompt of the local player.          *)
(* Hands are kept as bags of card ids (the order of pokerInHand is not     *)
(* modelled); the other sequences keep their order.  played and aside     *)
(* record where cards went: the cards removed from hands by plays, and     *)
(* whether the 3 bottom cards of the deal still lie aside.                 *)
(***************************************************************************)
EXTENDS Integers, Sequences, FiniteSets, Bags, TLC

VARIABLES players, tablePoker, tablePokerPic, lastShotPlayer, whoseTurn,
          state, timers, prompted, played, aside, msgCount, ev,
          timeouts, connects, opened, nresp, delivered, websocket, observer

vars == <<players, tablePoker, tablePokerPic, lastShotPlayer, whoseTurn,
          state, timers, prompted, played, aside, msgCount, ev,
          timeouts, connects, opened, nresp, delivered, websocket, observer>>

sockvars == <<timeouts, connects, opened, nresp, delivered, websocket>>

(***************************************************************************)
(* Program constants.                                                      *)
(***************************************************************************)
Seats == {0, 1, 2}
HandSize == 17
BottomSize == 3
CardBack == 55
DeckSize == 54
DealLastDelay == 1500
StartPlayDelay == 1000
GameOverDelay == 2000
LocalUid == 1
OpenDelay == 100

(***************************************************************************)
(* Bounds of the model and the values inbound messages are drawn from.     *)
(***************************************************************************)
MaxMsgs == 3
MaxTimers == 2
MaxConnects == 2
MaxRequests == 3

Null == -1
NoUid == 0
Undefined == 0
NoSprite == -2
NoRoom == [id |-> Null, multiple |-> Null]
StrangerUid == LocalUid + 8
PeerUids == {2, 3}
MsgUids == {LocalUid} \cup PeerUids \cup {StrangerUid}
NameOf(uid) == uid + 100
Multiples == {2}
DealtHand == [i \in 1..HandSize |-> i]
ShortHand == [i \in 1..(HandSize - 1) |-> i]
DealChoices == {DealtHand, ShortHand}
BottomCards == <<52, 53, 54>>
ShotChoices == {<<>>, <<17>>, <<40>>, DealtHand}
TurnChoices == {<<>>, <<30, 31, 32>>}
RevealChoices == {<<20>>}

(***************************************************************************)
(* Helpers on sequences and bags.                                          *)
(***************************************************************************)
Range(s) == {s[i] : i \in DOMAIN s}
BagOfSeq(s) == [x \in Range(s) |-> Cardinality({i \in DOMAIN s : s[i] = x})]
Copies(n, x) == IF n > 0 THEN [y \in {x} |-> n] ELSE EmptyBag
Insert(s, x, i) == [j \in 1..(Len(s) + 1) |->
                      IF j < i THEN s[j] ELSE IF j = i THEN x ELSE s[j - 1]]

RECURSIVE SortPokers(_)
SortPokers(s) ==
    IF s = <<>> THEN <<>>
    ELSE LET rest == SortPokers(Tail(s))
             k == Cardinality({j \in DOMAIN rest : rest[j] <= Head(s)})
         IN Insert(rest, Head(s), k + 1)

(***************************************************************************)
(* Player (player.mjs).                                                    *)
(***************************************************************************)
createPlay(seat) ==
    [uid |-> NoUid, name |-> NoUid, pokerInHand |-> EmptyBag, isLandlord |-> FALSE]

updateInfo(p, uid, name) == [p EXCEPT !.uid = uid, !.name = name]

setLandlord(p) == [p EXCEPT !.isLandlord = TRUE]

cleanPokers(p) == [p EXCEPT !.pokerInHand = EmptyBag]

findAPoker(hand, pid) ==
    IF BagIn(pid, hand) THEN pid
    ELSE IF BagIn(CardBack, hand) THEN CardBack
    ELSE NoSprite

removeAPoker(hand, pid) ==
    IF findAPoker(hand, pid) = NoSprite THEN hand
    ELSE hand (-) SetToBag({findAPoker(hand, pid)})

replacePoker(p, pokers) == [p EXCEPT !.pokerInHand = BagOfSeq(pokers)]

(***************************************************************************)
(* The session as one record; every handler maps a record to a record.     *)
(* threw (where the call stopped on a TypeError, or "none"), sent and       *)
(* prompt are what the handler did in this call.                           *)
(***************************************************************************)
NoPrompt == <<"none">>

Cur == [players |-> players, tablePoker |-> tablePoker,
        tablePokerPic |-> tablePokerPic, lastShotPlayer |-> lastShotPlayer,
        whoseTurn |-> whoseTurn, state |-> state, timers |-> timers,
        prompted |-> prompted,
        played |-> played, aside |-> aside, threw |-> "none", sent |-> <<>>, prompt |-> NoPrompt,
        alert |-> "none"]

Throw(g, what) == [g EXCEPT !.threw = what]
Threw(g) == g.threw # "none"

Timer(kind, by, seat, cards) ==
    [kind |-> kind, by |-> by, seat |-> seat, cards |-> cards, stale |-> FALSE]
MarkStale(ts) == [i \in DOMAIN ts |-> [ts[i] EXCEPT !.stale = TRUE]]
NoTimer == Timer("none", "none", Null, <<>>)

Delay(kind) == CASE kind = "dealLastThreePoker" -> DealLastDelay
                 [] kind = "startPlay" -> StartPlayDelay
                 [] kind = "gameOver" -> GameOverDelay

uidToSeat(ps, uid) ==
    IF ps[0].uid = uid THEN 0
    ELSE IF ps[1].uid = uid THEN 1
    ELSE IF ps[2].uid = uid THEN 2
    ELSE -1

observerSetMultiple_local(g, multiple) ==
    IF g.state.room = NoRoom THEN Throw(g, "room")
    ELSE [g EXCEPT !.state.room.multiple = 2 * @]

observerSetMultiple(g, multiple) ==
    IF g.state.room = NoRoom THEN Throw(g, "room")
    ELSE [g EXCEPT !.state.room.multiple = multiple]

isLastShotPlayer(g) == g.whoseTurn = g.lastShotPlayer

startPlay(g) ==
    IF g.whoseTurn < 0 \/ g.whoseTurn >= 3 THEN g
    ELSE IF isLastShotPlayer(g) THEN [g EXCEPT !.prompt = <<"play", <<>>>>]
    ELSE [g EXCEPT !.prompt = <<"play", g.tablePoker>>]

startCallScore(g) ==
    IF g.whoseTurn = 0 THEN [g EXCEPT !.state.rob = TRUE] ELSE g

(***************************************************************************)
(* Game.dealPoker: the card back gets a sprite, and 17 times seats 2 and 1 *)
(* get a card back and seat 0 gets pokers.pop() (undefined once pokers is  *)
(* exhausted).                                                             *)
(***************************************************************************)
Popped(pokers) ==
    [i \in 1..HandSize |->
        IF Len(pokers) - i + 1 >= 1 THEN pokers[Len(pokers) - i + 1] ELSE Undefined]

dealPoker(g, pokers) ==
    [g EXCEPT !.tablePokerPic = @ \cup {CardBack},
              !.aside = TRUE,
              !.players[2].pokerInHand = @ (+) Copies(HandSize, CardBack),
              !.players[1].pokerInHand = @ (+) Copies(HandSize, CardBack),
              !.players[0].pokerInHand = @ (+) BagOfSeq(Popped(pokers))]

(***************************************************************************)
(* Game.showLastThreePoker: needs exactly 3 cards on the table; replaces   *)
(* the card back's sprite by the sprites of the 3 cards and schedules      *)
(* dealLastThreePoker in 1500 ms.  by, seat and cards of the timer record  *)
(* only remember which handler scheduled the reveal, for which landlord    *)
(* and with which bottom cards.                                            *)
(***************************************************************************)
showLastThreePoker(g, by, seat) ==
    IF Len(g.tablePoker) # BottomSize THEN g
    ELSE [g EXCEPT !.tablePokerPic = (@ \ {CardBack}) \cup Range(g.tablePoker),
                   !.timers = Append(@, Timer("dealLastThreePoker", by, seat,
                                              g.tablePoker))]

(***************************************************************************)
(* Game.dealLastThreePoker.  The loop of lines 425-431 pushes each table   *)
(* card to the hand of players[whoseTurn] and hands its sprite to the      *)
(* player; a card with no sprite stops the callback there (TypeError).     *)
(***************************************************************************)
RECURSIVE pushBottom(_, _, _)
pushBottom(g, seat, i) ==
    IF i > BottomSize THEN g
    ELSE LET pid == g.tablePoker[i]
             g1 == [g EXCEPT !.players[seat].pokerInHand = @ (+) SetToBag({pid})]
         IN IF pid \notin g.tablePokerPic THEN Throw(g1, "sprite")
            ELSE pushBottom(g1, seat, i + 1)

dealLastThreePoker(g) ==
    IF g.whoseTurn < 0 \/ g.whoseTurn >= 3 THEN g
    ELSE IF Len(g.tablePoker) # BottomSize THEN g
    ELSE LET g1 == pushBottom(g, g.whoseTurn, 1)
         IN IF Threw(g1) THEN g1
            ELSE IF g.whoseTurn # 0
                    /\ findAPoker(g1.players[g.whoseTurn].pokerInHand, CardBack) = NoSprite
                 THEN Throw(g1, "sprite")
            ELSE LET g2 == [g1 EXCEPT !.tablePoker = <<>>,
                                      !.lastShotPlayer = g.whoseTurn,
                                      !.aside = FALSE]
                 IN IF g2.whoseTurn = 0 THEN startPlay(g2) ELSE g2

(***************************************************************************)
(* Game.handleShotPoker.  removeShot is the loop of lines 485-497: a card  *)
(* whose sprite findAPoker does not find stops the handler (TypeError at   *)
(* p.id); discardTable is the loop of lines 499-503.                       *)
(***************************************************************************)
RECURSIVE removeShot(_, _, _, _)
removeShot(g, seat, pokers, i) ==
    IF i > Len(pokers) THEN g
    ELSE IF findAPoker(g.players[seat].pokerInHand, pokers[i]) = NoSprite THEN Throw(g, "sprite")
    ELSE removeShot([g EXCEPT !.players[seat].pokerInHand = removeAPoker(@, pokers[i]),
                              !.played = @ (+) SetToBag({pokers[i]})],
                    seat, pokers, i + 1)

discardTable(g) ==
    IF \E i \in DOMAIN g.tablePoker : g.tablePoker[i] \notin g.tablePokerPic
    THEN Throw(g, "sprite") ELSE g

advanceTurn_noWrap(g, seat) ==
    IF BagCardinality(g.players[seat].pokerInHand) > 0
    THEN LET g1 == [g EXCEPT !.whoseTurn = seat + 1]
         IN IF g1.whoseTurn = 0
            THEN [g1 EXCEPT !.timers = Append(@, Timer("startPlay", "shot", Null, <<>>))]
            ELSE g1
    ELSE g

advanceTurn_always(g, seat) ==
    LET g1 == [g EXCEPT !.whoseTurn = (seat + 1) % 3]
    IN IF g1.whoseTurn = 0
       THEN [g1 EXCEPT !.timers = Append(@, Timer("startPlay", "shot", Null, <<>>))]
       ELSE g1

advanceTurn(g, seat) ==
    IF BagCardinality(g.players[seat].pokerInHand) > 0
    THEN LET g1 == [g EXCEPT !.whoseTurn = (seat + 1) % 3]
         IN IF g1.whoseTurn = 0
            THEN [g1 EXCEPT !.timers = Append(@, Timer("startPlay", "shot", Null, <<>>))]
            ELSE g1
    ELSE g

handleShotPoker_passOwnsTrick(g, packet) ==
    LET seat == uidToSeat(g.players, packet.uid)
        g0 == [g EXCEPT !.whoseTurn = seat]
        pokers == SortPokers(packet.pokers)
        g1 == IF Len(pokers) = 0 THEN g0 ELSE removeShot(g0, seat, pokers, 1)
        g2 == IF Threw(g1) THEN g1 ELSE discardTable(g1)
    IN IF seat = -1 THEN Throw(g0, "seat")
       ELSE IF Threw(g2) THEN g2
       ELSE advanceTurn([g2 EXCEPT !.tablePoker = pokers,
                                   !.tablePokerPic = Range(pokers),
                                   !.lastShotPlayer = seat], seat)

handleShotPoker(g, packet) ==
    LET seat == uidToSeat(g.players, packet.uid)
        g0 == [g EXCEPT !.whoseTurn = seat]
        pokers == SortPokers(packet.pokers)
    IN IF seat = -1 THEN Throw(g0, "seat")
       ELSE IF Len(pokers) = 0 THEN advanceTurn(g0, seat)
       ELSE LET g1 == removeShot(g0, seat, pokers, 1)
                g2 == IF Threw(g1) THEN g1 ELSE discardTable(g1)
            IN IF Threw(g2) THEN g2
               ELSE advanceTurn([g2 EXCEPT !.tablePoker = pokers,
                                           !.tablePokerPic = Range(pokers),
                                           !.lastShotPlayer = seat], seat)

(***************************************************************************)
(* Game.cleanWorld and Game.restart.                                       *)
(***************************************************************************)
cleanWorld_resetLandlord(g) ==
    discardTable([g EXCEPT !.players = [i \in Seats |->
                                         [cleanPokers(g.players[i]) EXCEPT !.isLandlord = FALSE]],
                           !.played = EmptyBag, !.aside = FALSE])

cleanWorld(g) ==
    discardTable([g EXCEPT !.players = [i \in Seats |-> cleanPokers(g.players[i])],
                           !.played = EmptyBag, !.aside = FALSE])

restart_nextLeads(g) ==
    [g EXCEPT !.players = [i \in Seats |-> createPlay(i)],
              !.tablePoker = <<>>,
              !.tablePokerPic = {},
              !.lastShotPlayer = Null,
              !.whoseTurn = (IF g.whoseTurn < 0 THEN 0 ELSE g.whoseTurn + 1) % 3,
              !.played = EmptyBag,
              !.aside = FALSE]

restart(g) ==
    [g EXCEPT !.players = [i \in Seats |-> createPlay(i)],
              !.tablePoker = <<>>,
              !.tablePokerPic = {},
              !.lastShotPlayer = Null,
              !.whoseTurn = 0,
              !.played = EmptyBag,
              !.aside = FALSE]

(***************************************************************************)
(* Game.onmessage, one operator per case of the switch.                    *)
(***************************************************************************)
joinSeats(g, syncInfo) ==
    LET hits == {i \in DOMAIN syncInfo : syncInfo[i].uid = g.players[0].uid}
    IN IF hits = {} THEN g
       ELSE LET i == (CHOOSE h \in hits : \A k \in hits : h <= k) - 1
                info_1 == syncInfo[((i + 1) % 3) + 1]
                info_2 == syncInfo[((i + 2) % 3) + 1]
            IN [g EXCEPT !.players[1] = updateInfo(@, info_1.uid, info_1.name),
                         !.players[2] = updateInfo(@, info_2.uid, info_2.name)]

onJoinRoom(g, packet) ==
    LET g1 == joinSeats([g EXCEPT !.state.room = [id |-> packet.room.id,
                                                  multiple |-> packet.room.multiple]],
                        packet.players)
    IN IF Len(packet.room.bottom_cards) = BottomSize
       THEN LET g2 == [g1 EXCEPT !.tablePoker = packet.room.bottom_cards]
            IN IF packet.room.landlord_uid # -1 /\ packet.room.state >= 3
               THEN showLastThreePoker(g2, "join", uidToSeat(g2.players, packet.room.landlord_uid))
               ELSE g2
       ELSE g1

onReady(g, packet) ==
    IF packet.uid = g.players[0].uid THEN [g EXCEPT !.state.ready = TRUE] ELSE g

onDealPoker(g, packet) ==
    IF packet.uid = g.players[0].uid
    THEN LET g1 == dealPoker(g, packet.pokers)
         IN startCallScore([g1 EXCEPT !.whoseTurn = uidToSeat(g1.players, packet.uid)])
    ELSE g

setBottom(table, pokers) ==
    [i \in 1..(IF Len(table) > BottomSize THEN Len(table) ELSE BottomSize) |->
        IF i <= BottomSize THEN pokers[i] ELSE table[i]]

onCallScore(g, packet) ==
    LET seat == uidToSeat(g.players, packet.uid)
        g0 == [g EXCEPT !.whoseTurn = seat]
    IN IF seat = -1 THEN Throw(g0, "seat")
       ELSE LET g1 == [g0 EXCEPT !.state.rob = FALSE]
            IN IF packet.landlord = -1
               THEN observerSetMultiple(
                        startCallScore([g1 EXCEPT !.whoseTurn = (seat + 1) % 3]),
                        packet.multiple)
               ELSE LET lord == uidToSeat(g1.players, packet.landlord)
                        g2 == [g1 EXCEPT !.whoseTurn = lord]
                    IN IF Len(packet.pokers) = BottomSize
                       THEN LET g3 == [g2 EXCEPT !.tablePoker = setBottom(@, packet.pokers)]
                            IN IF lord = -1 THEN Throw(g3, "seat")
                               ELSE observerSetMultiple(
                                        showLastThreePoker(
                                            [g3 EXCEPT !.players[lord] = setLandlord(@)], "bid", lord),
                                        packet.multiple)
                       ELSE observerSetMultiple(g2, packet.multiple)

onShotPoker(g, packet) ==
    LET g1 == handleShotPoker(g, packet)
    IN IF Threw(g1) THEN g1 ELSE observerSetMultiple(g1, packet.multiple)

onTurnPlayer(g, packet) ==
    LET g1 == [g EXCEPT !.whoseTurn = uidToSeat(g.players, packet.uid),
                        !.tablePoker = packet.pokers]
    IN IF g1.whoseTurn = 0 THEN startPlay(g1) ELSE g1

RECURSIVE revealHands(_, _, _)
revealHands(g, infos, i) ==
    IF i > Len(infos) THEN g
    ELSE LET seat == uidToSeat(g.players, infos[i].uid)
         IN revealHands(IF seat > 0
                        THEN [g EXCEPT !.players[seat] = replacePoker(@, infos[i].pokers)]
                        ELSE g, infos, i + 1)

(* The gameOver event remembers in seat the seat of the winner the message *)
(* named; the callback announces the result through alert.                 *)
onGameOver(g, packet) ==
    LET g1 == revealHands(g, packet.players, 1)
        seat == uidToSeat(g1.players, packet.winner)
    IN [g1 EXCEPT !.whoseTurn = seat,
                  !.timers = Append(@, Timer("gameOver", "over", seat, <<>>))]

announce(g) == IF g.players[g.whoseTurn].isLandlord THEN "landlord wins" ELSE "farmers win"

gameOver(g) ==
    IF g.whoseTurn = -1 THEN Throw(g, "seat")
    ELSE cleanWorld([g EXCEPT !.alert = announce(g), !.state.ready = FALSE])

onopen(g) == [g EXCEPT !.sent = <<"REQ_ROOM_LIST", "REQ_JOIN_ROOM">>]

(***************************************************************************)
(* The local play.  startPlay hands the trick to beat to                   *)
(* players[0].playPoker, which opens the play prompt (prompted); the       *)
(* player's submit handler (player.mjs) asks the rule module for the two   *)
(* verdicts legal and beats and calls Game.finishPlay when it accepts the  *)
(* cards.  Game.finishPlay only sends the play request.                    *)
(***************************************************************************)
finishPlay_optimistic(g, pokers) ==
    [g EXCEPT !.sent = <<"REQ_SHOT_POKER">>,
              !.players[0].pokerInHand = @ (-) BagOfSeq(pokers),
              !.tablePoker = pokers,
              !.lastShotPlayer = 0]

finishPlay(g, pokers) == [g EXCEPT !.sent = <<"REQ_SHOT_POKER">>]

submitPlay_noBeatCheck(g, cards, legal, beats) ==
    IF legal THEN finishPlay([g EXCEPT !.prompted = NoPrompt], cards) ELSE g

submitPlay(g, cards, legal, beats) ==
    IF legal /\ (g.prompted[2] = <<>> \/ beats)
    THEN finishPlay([g EXCEPT !.prompted = NoPrompt], cards)
    ELSE g

(***************************************************************************)
(* Socket (part_000).  USE_LOCAL_SIMULATION is true, so connect and send   *)
(* take the local-simulation branch: connect stores the three handlers and *)
(* schedules openHandler in 100 ms; send passes the request to             *)
(* simulateResponse, which schedules a response in 200 ms for five request *)
(* types and only logs any other type.  timeouts are the pending           *)
(* setTimeout callbacks in the order they were scheduled.  connects counts *)
(* the calls of connect, opened lists the connection attempts whose        *)
(* openHandler ran (with what it sent), nresp numbers the responses and    *)
(* delivered lists the numbers of the responses handed to messageHandler.  *)
(***************************************************************************)
NoWebSocket == [id |-> Null, readyState |-> "none"]

Sock == [timeouts |-> timeouts, connects |-> connects, opened |-> opened,
         nresp |-> nresp, delivered |-> delivered, websocket |-> websocket]

OpenTimeout(attempt) == [kind |-> "open", type |-> "none", n |-> attempt, conn |-> attempt]
ResponseTimeout(type, n, conn) == [kind |-> "response", type |-> type, n |-> n, conn |-> conn]

Response(type) ==
    CASE type = "CLI_LOGIN" -> "SER_LOGIN"
      [] type = "CLI_LIST_TABLE" -> "SER_LIST_TABLE"
      [] type = "CLI_JOIN_TABLE" -> "SER_JOIN_TABLE"
      [] type = "CLI_DEAL_POKER" -> "SER_DEAL_POKER"
      [] type = "CLI_CALL_SCORE" -> "SER_CALL_SCORE"
      [] OTHER -> "none"

ResponseDelay_dealFirst(type) == IF type = "SER_DEAL_POKER" THEN 50 ELSE 200

ResponseDelay(type) == 200

TimeoutDelay_slowOpen(t) == IF t.kind = "open" THEN 3 * OpenDelay ELSE ResponseDelay(t.type)

TimeoutDelay(t) == IF t.kind = "open" THEN OpenDelay ELSE ResponseDelay(t.type)

connect_sync(so) ==
    [so EXCEPT !.connects = @ + 1,
               !.opened = Append(@, [attempt |-> so.connects + 1,
                                     sent |-> <<"REQ_ROOM_LIST", "REQ_JOIN_ROOM">>])]

connect(so) ==
    [so EXCEPT !.connects = @ + 1,
               !.timeouts = Append(@, OpenTimeout(so.connects + 1))]

simulateResponse(so, type) ==
    IF Response(type) = "none" THEN so
    ELSE [so EXCEPT !.nresp = @ + 1,
                    !.timeouts = Append(@, ResponseTimeout(Response(type), so.nresp + 1,
                                                           so.connects))]

send(so, type) == simulateResponse(so, type)

RECURSIVE sendAll(_, _)
sendAll(so, msgs) ==
    IF msgs = <<>> THEN so ELSE sendAll(send(so, Head(msgs)), Tail(msgs))

onerror_restart(g) == restart(g)

onerror(g) == g

onUnknownPacket_cleans(g) == cleanWorld(g)

onUnknownPacket(g) == g

(***************************************************************************)
(* The state after the constructor and create(): three fresh players, the  *)
(* local identity at seat 0, and the socket's connection attempt pending.  *)
(***************************************************************************)
(***************************************************************************)
(* class Observer on its own.  A key is the list of its segments between   *)
(* dots, as key.split('.') gives them.  A value is undefined, a number or  *)
(* an object with the fields of Fields, each undefined (0) or a number.    *)
(* observer.state and observer.subscribers are the two maps of the class;  *)
(* last, calls, threw and got record the last operation, the subscriber    *)
(* calls it made in order, whether it threw and what get returned.         *)
(***************************************************************************)
MaxSubs == 2
Fields == {"b"}
Numbers == {1, 2}
Callbacks == {1, 2}
Countdown == <<"countdown">>
Keys == {<<"a">>, Countdown, <<"a", "b">>, <<"countdown", "b">>}
NoFields == [f \in Fields |-> Undefined]
Undef == [kind |-> "undefined", n |-> Undefined, f |-> NoFields]
Num(n) == [kind |-> "number", n |-> n, f |-> NoFields]
Obj(f) == [kind |-> "object", n |-> Undefined, f |-> f]
Values == {Num(n) : n \in Numbers} \cup {Obj(NoFields)}
NoOp == [op |-> "none", key |-> <<>>, val |-> Undef, cb |-> Undefined]

NewObserver ==
    [state |-> [k \in Keys |-> Undef], subscribers |-> [k \in Keys |-> <<>>],
     last |-> NoOp, calls |-> <<>>, threw |-> FALSE, got |-> Undef]

get(o, key) == o.state[key]

notify(o, key) ==
    [o EXCEPT !.calls = [i \in DOMAIN o.subscribers[key] |->
                            [cb |-> o.subscribers[key][i], val |-> o.state[key]]]]

set(o, key, val) ==
    IF key = Countdown THEN o
    ELSE IF Len(key) = 1 THEN notify([o EXCEPT !.state[key] = val], key)
    ELSE IF o.state[<<key[1]>>].kind # "object" THEN [o EXCEPT !.threw = TRUE]
    ELSE notify([o EXCEPT !.state[<<key[1]>>].f[key[2]] = val.n], <<key[1]>>)

subscribe(o, key, cb) ==
    IF key = Countdown THEN o
    ELSE [o EXCEPT !.subscribers[key] = Append(@, cb)]

Called(o, op, key, val, cb) ==
    [o EXCEPT !.last = [op |-> op, key |-> key, val |-> val, cb |-> cb],
              !.calls = <<>>, !.threw = FALSE, !.got = Undef]

NoPacket == [uid |-> Null, pokers |-> <<>>]

Event(op, prev, packet, fired, g) ==
    [op |-> op, again |-> (op = prev), packet |-> packet, fired |-> fired,
     threw |-> g.threw, sent |-> g.sent, prompt |-> g.prompt, alert |-> g.alert]

Init ==
    /\ players = [i \in Seats |->
                    IF i = 0 THEN updateInfo(createPlay(0), LocalUid, NameOf(LocalUid))
                    ELSE createPlay(i)]
    /\ tablePoker = <<>>
    /\ tablePokerPic = {}
    /\ lastShotPlayer = Null
    /\ whoseTurn = 0
    /\ state = [room |-> NoRoom, ready |-> FALSE, rob |-> FALSE]
    /\ timers = <<>>
    /\ timeouts = <<OpenTimeout(1)>>
    /\ connects = 1
    /\ opened = <<>>
    /\ nresp = 0
    /\ delivered = <<>>
    /\ websocket = NoWebSocket
    /\ prompted = NoPrompt
    /\ played = EmptyBag
    /\ aside = FALSE
    /\ msgCount = 0
    /\ ev = Event("create", "none", NoPacket, NoTimer, Cur)
    /\ observer = NewObserver

CommitSock(so) ==
    /\ timeouts' = so.timeouts
    /\ connects' = so.connects
    /\ opened' = so.opened
    /\ nresp' = so.nresp
    /\ delivered' = so.delivered
    /\ websocket' = so.websocket

Commit(g, e) ==
    /\ players' = g.players
    /\ tablePoker' = g.tablePoker
    /\ tablePokerPic' = g.tablePokerPic
    /\ lastShotPlayer' = g.lastShotPlayer
    /\ whoseTurn' = g.whoseTurn
    /\ state' = g.state
    /\ timers' = g.timers
    /\ prompted' = IF g.prompt # NoPrompt THEN g.prompt ELSE g.prompted
    /\ played' = g.played
    /\ aside' = g.aside
    /\ ev' = e
    /\ UNCHANGED observer

(***************************************************************************)
(* Inbound messages.  A message is taken while the message budget lasts    *)
(* and there is room for the timer event its handler may schedule.  The    *)
(* submits of the local player and the transport errors count against the  *)
(* same budget.                                                            *)
(***************************************************************************)
CanReceive == msgCount < MaxMsgs /\ Len(timers) < MaxTimers
CanInput == msgCount < MaxMsgs

Received(g, op, packet) ==
    /\ Commit(g, Event(op, ev.op, packet, NoTimer, g))
    /\ msgCount' = msgCount + 1
    /\ UNCHANGED sockvars

Rotation(r) == [i \in 1..3 |->
                  LET u == ((i - 1 + r) % 3) + 1 IN [uid |-> u, name |-> NameOf(u)]]

JoinRooms ==
    {[id |-> 1, multiple |-> 1, bottom_cards |-> <<>>, landlord_uid |-> -1, state |-> 1],
     [id |-> 1, multiple |-> 1, bottom_cards |-> BottomCards, landlord_uid |-> -1, state |-> 2],
     [id |-> 1, multiple |-> 1, bottom_cards |-> BottomCards, landlord_uid |-> 2, state |-> 3]}

RcvJoinRoom ==
    /\ CanReceive
    /\ \E r \in 0..2, room \in JoinRooms :
          LET packet == [room |-> room, players |-> Rotation(r)]
          IN Received(onJoinRoom([Cur EXCEPT !.timers = MarkStale(timers)], packet),
                      "RSP_JOIN_ROOM", packet)

RcvReady ==
    /\ CanReceive
    /\ \E uid \in {LocalUid, 2} :
          Received(onReady(Cur, [uid |-> uid]), "RSP_READY", [uid |-> uid])

RcvDealPoker ==
    /\ CanReceive
    /\ \E uid \in {LocalUid, 2}, pokers \in DealChoices :
          LET packet == [uid |-> uid, pokers |-> pokers]
          IN Received(onDealPoker(Cur, packet), "RSP_DEAL_POKER", packet)

CallScores ==
    {[landlord |-> -1, pokers |-> <<>>],
     [landlord |-> LocalUid, pokers |-> BottomCards],
     [landlord |-> 2, pokers |-> BottomCards],
     [landlord |-> 2, pokers |-> <<>>]}

RcvCallScore ==
    /\ CanReceive
    /\ \E uid \in MsgUids, c \in CallScores, m \in Multiples :
          LET packet == [uid |-> uid, landlord |-> c.landlord, pokers |-> c.pokers,
                         multiple |-> m]
          IN Received(onCallScore(Cur, packet), "RSP_CALL_SCORE", packet)

RcvShotPoker ==
    /\ CanReceive
    /\ \E uid \in MsgUids, pokers \in ShotChoices, m \in Multiples :
          LET packet == [uid |-> uid, pokers |-> pokers, multiple |-> m]
          IN Received(onShotPoker(Cur, packet), "RSP_SHOT_POKER", packet)

RcvTurnPlayer ==
    /\ CanReceive
    /\ \E uid \in MsgUids, pokers \in TurnChoices :
          LET packet == [uid |-> uid, pokers |-> pokers]
          IN Received(onTurnPlayer(Cur, packet), "RSP_TURN_PLAYER", packet)

UnknownCodes == {"RSP_CHEAT"}

RcvUnknown ==
    /\ CanInput
    /\ \E code \in UnknownCodes :
          LET packet == [uid |-> Null, pokers |-> <<>>, code |-> code]
          IN Received(onUnknownPacket(Cur), "UNKNOWN PACKET", packet)

RcvGameOver ==
    /\ CanReceive
    /\ \E winner \in {LocalUid, 2, StrangerUid}, r \in RevealChoices :
          LET packet == [winner |-> winner, players |-> <<[uid |-> 2, pokers |-> r]>>]
          IN Received(onGameOver(Cur, packet), "RSP_GAME_OVER", packet)

(***************************************************************************)
(* Timer events.  An event scheduled earlier with a delay no longer than   *)
(* that of a later one fires before it; otherwise either may fire first.   *)
(***************************************************************************)
CanFire(i) == \A j \in 1..(i - 1) : Delay(timers[j].kind) > Delay(timers[i].kind)

Without(s, i) == [j \in 1..(Len(s) - 1) |-> IF j < i THEN s[j] ELSE s[j + 1]]

Fired(g, i) ==
    /\ Commit(g, Event(timers[i].kind, ev.op, NoPacket, timers[i], g))
    /\ UNCHANGED <<msgCount, sockvars>>

FireDealLastThreePoker ==
    \E i \in DOMAIN timers :
       /\ timers[i].kind = "dealLastThreePoker"
       /\ CanFire(i)
       /\ Fired(dealLastThreePoker([Cur EXCEPT !.timers = Without(timers, i)]), i)

FireStartPlay ==
    \E i \in DOMAIN timers :
       /\ timers[i].kind = "startPlay"
       /\ CanFire(i)
       /\ Fired(startPlay([Cur EXCEPT !.timers = Without(timers, i)]), i)

FireGameOver ==
    \E i \in DOMAIN timers :
       /\ timers[i].kind = "gameOver"
       /\ CanFire(i)
       /\ Fired(gameOver([Cur EXCEPT !.timers = Without(timers, i)]), i)

Restart ==
    /\ Commit(restart([Cur EXCEPT !.timers = MarkStale(timers)]),
              Event("restart", ev.op, NoPacket, NoTimer, Cur))
    /\ UNCHANGED <<msgCount, sockvars>>

(***************************************************************************)
(* The player submits cards of the local hand while the play prompt is     *)
(* open; legal and beats are the verdicts of the rule module.              *)
(***************************************************************************)
LocalChoices == {<<1>>, <<1, 2>>}

LocalPlay ==
    /\ CanInput
    /\ prompted # NoPrompt
    /\ \E cards \in LocalChoices, legal \in BOOLEAN, beats \in BOOLEAN :
          /\ \A c \in Range(cards) : BagIn(c, players[0].pokerInHand)
          /\ LET g == submitPlay(Cur, cards, legal, beats)
                 packet == [uid |-> LocalUid, pokers |-> cards,
                            legal |-> legal, beats |-> beats]
             IN /\ Commit(g, Event("submitPlay", ev.op, packet, NoTimer, g))
                /\ CommitSock(sendAll(Sock, g.sent))
    /\ msgCount' = msgCount + 1

(***************************************************************************)
(* The socket's timeouts.  A timeout scheduled earlier with a delay no     *)
(* longer than that of a later one fires before it.  An open timeout runs  *)
(* Game.onopen; a response timeout hands the response to Game.onmessage,   *)
(* whose switch knows none of the simulated response codes.                *)
(***************************************************************************)
CanTimeout(i) ==
    \A j \in 1..(i - 1) : TimeoutDelay(timeouts[j]) > TimeoutDelay(timeouts[i])

SocketOpen ==
    \E i \in DOMAIN timeouts :
       /\ timeouts[i].kind = "open"
       /\ CanTimeout(i)
       /\ LET g == onopen(Cur)
              so == [Sock EXCEPT !.timeouts = Without(timeouts, i),
                                 !.opened = Append(@, [attempt |-> timeouts[i].n,
                                                       sent |-> g.sent])]
          IN /\ Commit(g, Event("onopen", ev.op, NoPacket, NoTimer, g))
             /\ CommitSock(sendAll(so, g.sent))
       /\ UNCHANGED msgCount

Deliver ==
    \E i \in DOMAIN timeouts :
       /\ timeouts[i].kind = "response"
       /\ CanTimeout(i)
       /\ LET g == onUnknownPacket(Cur)
              packet == [uid |-> Null, pokers |-> <<>>, type |-> timeouts[i].type,
                         n |-> timeouts[i].n, conn |-> timeouts[i].conn]
          IN /\ Commit(g, Event("UNKNOWN PACKET", ev.op, packet, NoTimer, g))
             /\ CommitSock([Sock EXCEPT !.timeouts = Without(timeouts, i),
                                        !.delivered = Append(@, timeouts[i].n)])
       /\ UNCHANGED msgCount

(***************************************************************************)
(* A transport error runs Game.onerror, which connects again; any caller   *)
(* may send a request through Socket.send.                                 *)
(***************************************************************************)
OnError ==
    /\ CanInput
    /\ connects < MaxConnects
    /\ LET g == onerror(Cur)
       IN /\ Commit(g, Event("onerror", ev.op, NoPacket, NoTimer, g))
          /\ CommitSock(connect(Sock))
    /\ msgCount' = msgCount + 1

RequestTypes == {"CLI_LOGIN", "CLI_LIST_TABLE", "CLI_JOIN_TABLE", "CLI_DEAL_POKER",
                 "CLI_CALL_SCORE", "CLI_SHOT_POKER"}

Send ==
    /\ nresp < MaxRequests
    /\ \E type \in RequestTypes :
          /\ CommitSock(send(Sock, type))
          /\ ev' = [Event("send", ev.op, NoPacket, NoTimer, Cur) EXCEPT !.sent = <<type>>]
    /\ UNCHANGED <<players, tablePoker, tablePokerPic, lastShotPlayer, whoseTurn, state,
                   timers, prompted, played, aside, msgCount, observer>>

Next ==
    \/ RcvJoinRoom
    \/ RcvReady
    \/ RcvDealPoker
    \/ RcvCallScore
    \/ RcvShotPoker
    \/ RcvTurnPlayer
    \/ RcvGameOver
    \/ RcvUnknown
    \/ FireDealLastThreePoker
    \/ FireStartPlay
    \/ FireGameOver
    \/ Restart
    \/ LocalPlay
    \/ SocketOpen
    \/ OnError

Spec == Init /\ [][Next]_vars

(***************************************************************************)
(* The socket on its own: connection attempts, requests sent through       *)
(* Socket.send and the responses simulateResponse schedules for them.      *)
(***************************************************************************)
NextNet ==
    \/ SocketOpen
    \/ OnError
    \/ Send
    \/ Deliver

SpecNet == Init /\ [][NextNet]_vars

(***************************************************************************)
(* A match in progress: the session as the join result of a new room and   *)
(* the deal of 17 cards to the local uid leave it, under the same steps.   *)
(***************************************************************************)
Created ==
    [players |-> [i \in Seats |->
                    IF i = 0 THEN updateInfo(createPlay(0), LocalUid, NameOf(LocalUid))
                    ELSE createPlay(i)],
     tablePoker |-> <<>>, tablePokerPic |-> {}, lastShotPlayer |-> Null, whoseTurn |-> 0,
     state |-> [room |-> NoRoom, ready |-> FALSE, rob |-> FALSE], timers |-> <<>>,
     prompted |-> NoPrompt, played |-> EmptyBag, aside |-> FALSE,
     threw |-> "none", sent |-> <<>>, prompt |-> NoPrompt, alert |-> "none"]

FirstDeal == [uid |-> LocalUid, pokers |-> DealtHand]

NewRoom ==
    [room |-> [id |-> 1, multiple |-> 1, bottom_cards |-> <<>>, landlord_uid |-> -1,
               state |-> 1],
     players |-> Rotation(0)]

InPlay == onDealPoker(onJoinRoom(Created, NewRoom), FirstDeal)

InitPlay ==
    /\ players = InPlay.players
    /\ tablePoker = InPlay.tablePoker
    /\ tablePokerPic = InPlay.tablePokerPic
    /\ lastShotPlayer = InPlay.lastShotPlayer
    /\ whoseTurn = InPlay.whoseTurn
    /\ state = InPlay.state
    /\ timers = InPlay.timers
    /\ timeouts = <<OpenTimeout(1)>>
    /\ connects = 1
    /\ opened = <<>>
    /\ nresp = 0
    /\ delivered = <<>>
    /\ websocket = NoWebSocket
    /\ prompted = InPlay.prompted
    /\ played = InPlay.played
    /\ aside = InPlay.aside
    /\ msgCount = 0
    /\ ev = Event("RSP_DEAL_POKER", "RSP_JOIN_ROOM", FirstDeal, NoTimer, InPlay)
    /\ observer = NewObserver

SpecPlay == InitPlay /\ [][Next]_vars

(***************************************************************************)
(* The real-network branch of Socket (USE_LOCAL_SIMULATION false), the     *)
(* only one in which the channel reports errors.  websocket.id is the      *)
(* field Socket.websocket (Null, or the number of the WebSocket it         *)
(* holds), websocket.readyState the state of that WebSocket.  connect      *)
(* returns at once when the field is not null.  The onerror and onclose    *)
(* callbacks are plain functions set on the WebSocket, so their            *)
(* 'this.websocket = null' writes a property of the WebSocket object and   *)
(* leaves the field of Socket as it was; onerror then calls Game.onerror,  *)
(* which calls connect.  send hands the request to the WebSocket.          *)
(***************************************************************************)
connect_ws(so) ==
    LET so1 == [so EXCEPT !.connects = @ + 1]
    IN IF so.websocket.id # Null THEN so1
       ELSE [so1 EXCEPT !.websocket = [id |-> so1.connects, readyState |-> "connecting"]]

onWsClose(so) == [so EXCEPT !.websocket.readyState = "closed"]

onWsError(so) == connect_ws(onWsClose(so))

InitWs ==
    /\ players = Created.players
    /\ tablePoker = <<>>
    /\ tablePokerPic = {}
    /\ lastShotPlayer = Null
    /\ whoseTurn = 0
    /\ state = Created.state
    /\ timers = <<>>
    /\ timeouts = <<>>
    /\ connects = 1
    /\ opened = <<>>
    /\ nresp = 0
    /\ delivered = <<>>
    /\ websocket = [id |-> 1, readyState |-> "connecting"]
    /\ prompted = NoPrompt
    /\ played = EmptyBag
    /\ aside = FALSE
    /\ msgCount = 0
    /\ ev = Event("create", "none", NoPacket, NoTimer, Created)
    /\ observer = NewObserver

WsOpen ==
    /\ websocket.readyState = "connecting"
    /\ LET g == onopen(Cur)
       IN /\ Commit(g, Event("onopen", ev.op, NoPacket, NoTimer, g))
          /\ CommitSock([Sock EXCEPT !.websocket.readyState = "open",
                                     !.opened = Append(@, [attempt |-> websocket.id,
                                                           sent |-> g.sent])])
    /\ UNCHANGED msgCount

WsError ==
    /\ websocket.readyState \in {"connecting", "open"}
    /\ LET g == onerror(Cur)
       IN /\ Commit(g, Event("onerror", ev.op, NoPacket, NoTimer, g))
          /\ CommitSock(onWsError(Sock))
    /\ UNCHANGED msgCount

WsClose ==
    /\ websocket.readyState \in {"connecting", "open"}
    /\ CommitSock(onWsClose(Sock))
    /\ ev' = Event("onclose", ev.op, NoPacket, NoTimer, Cur)
    /\ UNCHANGED <<players, tablePoker, tablePokerPic, lastShotPlayer, whoseTurn, state,
                   timers, prompted, played, aside, msgCount, observer>>

WsMessage ==
    /\ websocket.readyState = "open"
    /\ (RcvJoinRoom \/ RcvReady \/ RcvDealPoker \/ RcvUnknown)

NextWs ==
    \/ WsOpen
    \/ WsError
    \/ WsClose
    \/ WsMessage

SpecWs == InitWs /\ [][NextWs]_vars /\ WF_vars(WsOpen)

(***************************************************************************)
(* The observer store alone, under any calls of set, get and subscribe.    *)
(***************************************************************************)
GameVars ==
    <<players, tablePoker, tablePokerPic, lastShotPlayer, whoseTurn, state, timers,
      prompted, played, aside, msgCount, ev, sockvars>>

ObsSet ==
    /\ \E key \in Keys, val \in Values :
          /\ Len(key) = 2 => val.kind = "number"
          /\ observer' = set(Called(observer, "set", key, val, Undefined), key, val)
    /\ UNCHANGED GameVars

ObsGet ==
    /\ \E key \in Keys :
          observer' = [Called(observer, "get", key, Undef, Undefined)
                          EXCEPT !.got = get(observer, key)]
    /\ UNCHANGED GameVars

ObsSubscribe ==
    /\ \E key \in Keys, cb \in Callbacks :
          /\ Len(observer.subscribers[key]) < MaxSubs
          /\ observer' = subscribe(Called(observer, "subscribe", key, Undef, cb), key, cb)
    /\ UNCHANGED GameVars

NextObs ==
    \/ ObsSet
    \/ ObsGet
    \/ ObsSubscribe

SpecObs == Init /\ [][NextObs]_vars

(***************************************************************************)
(* Properties.  A step is the receipt of a message exactly when msgCount   *)
(* grows; ev' then holds the message, and ActingSeat is the seat its uid   *)
(* has in the state the message arrives in.                                *)
(***************************************************************************)
Hands == [i \in Seats |-> players[i].pokerInHand]
HandCount(i) == BagCardinality(players[i].pokerInHand)
Dealt == \A i \in Seats : HandCount(i) > 0
MsgStep == msgCount' = msgCount + 1
ActingSeat == uidToSeat(players, ev'.packet.uid)
PlayStep == MsgStep /\ ev'.op = "RSP_SHOT_POKER"
BidStep == MsgStep /\ ev'.op = "RSP_CALL_SCORE"
RevealFired == ev'.op = "dealLastThreePoker" /\ timers' # timers
RevealPending ==
    \E i \in DOMAIN timers : timers[i].kind = "dealLastThreePoker" /\ timers[i].by = "bid"

(* C1: Conservation.  While every seat holds cards, the three hands, the   *)
(* bottom cards and the cards already played hold 54 cards, and no deck    *)
(* card is held twice.  The hands of seats 1 and 2 are card backs, which   *)
(* count as cards of unknown face; the bottom cards count as 3 cards from  *)
(* the deal until dealLastThreePoker has put them into a hand.             *)
BottomAside == IF aside THEN BottomSize ELSE 0
AllCards == Hands[0] (+) Hands[1] (+) Hands[2] (+) played
C1_Conservation ==
    Dealt =>
        /\ BagCardinality(AllCards) + BottomAside = DeckSize
        /\ \A c \in 1..DeckSize : CopiesIn(c, AllCards) <= 1

(* C2: a play result or bid result of a seated player whose seat is not    *)
(* whoseTurn is rejected: hands, landlord flags, trick and whoseTurn stay  *)
(* as they were (checked once the cards are dealt).                        *)
C2_OutOfTurnRejected ==
    [][((PlayStep \/ BidStep) /\ Dealt /\ ActingSeat \in Seats /\ ActingSeat # whoseTurn) =>
          /\ players' = players
          /\ tablePoker' = tablePoker
          /\ lastShotPlayer' = lastShotPlayer
          /\ whoseTurn' = whoseTurn]_vars

(* C3: a play or bid result that is a protocol violation (its acting seat  *)
(* is not the expected actor, or the handler could not apply its cards)    *)
(* makes the client send a request for a full snapshot (a join request).   *)
C3_ViolationRequestsResync ==
    [][((PlayStep \/ BidStep) /\ Dealt
            /\ (ActingSeat # whoseTurn \/ ev'.threw \in {"seat", "sprite"})) =>
          \E i \in DOMAIN ev'.sent : ev'.sent[i] = "REQ_JOIN_ROOM"]_vars

(* C4: round robin.  After an accepted play result by seat s that leaves   *)
(* Hand[s] non-empty, and after a bid result by seat s naming no landlord, *)
(* whoseTurn is (s+1) mod 3.                                               *)
C4_RoundRobin ==
    [][LET s == ActingSeat
       IN /\ (PlayStep /\ s \in Seats /\ ev'.threw \in {"none", "room"}
                 /\ BagCardinality(players'[s].pokerInHand) > 0)
                => whoseTurn' = (s + 1) % 3
          /\ (BidStep /\ s \in Seats /\ ev'.packet.landlord = -1)
                => whoseTurn' = (s + 1) % 3]_vars

C4_Witness ==
    /\ ev.op = "RSP_SHOT_POKER"
    /\ ev.threw = "none"
    /\ ev.packet.pokers # <<>>
    /\ uidToSeat(players, ev.packet.uid) = 2
    /\ HandCount(2) > 0
    /\ whoseTurn = 0

(* C5: while the bottom cards named by a bid result wait for their reveal  *)
(* (the dealLastThreePoker timer is pending), no play result and no turn   *)
(* notification is processed (checked once the cards are dealt).           *)
C5_NoPlayBeforeReveal ==
    [][(Dealt /\ RevealPending) =>
          ~(MsgStep /\ ev'.op \in {"RSP_SHOT_POKER", "RSP_TURN_PLAYER"})]_vars

(* C6: when the reveal scheduled by a bid result naming landlord L with    *)
(* bottom cards B runs, Hand[L] grows by exactly B, no other hand changes, *)
(* the table is cleared and whoseTurn is L, whatever arrived in between    *)
(* (checked for a match whose cards were dealt before the bid result).     *)
C6_RevealGoesToLandlord ==
    [][(RevealFired /\ Dealt /\ CardBack \notin tablePokerPic
            /\ ev'.fired.by = "bid" /\ ev'.fired.seat \in Seats) =>
          LET L == ev'.fired.seat
              B == ev'.fired.cards
          IN /\ players'[L].pokerInHand = players[L].pokerInHand (+) BagOfSeq(B)
             /\ \A i \in Seats \ {L} : players'[i].pokerInHand = players[i].pokerInHand
             /\ tablePoker' = <<>>
             /\ whoseTurn' = L]_vars

(* C7: a seat's isLandlord flag, once true, stays true in every step that  *)
(* is not a restart.                                                       *)
C7_LandlordFlagKept ==
    [][\A i \in Seats :
          (players[i].isLandlord /\ ev'.op # "restart") => players'[i].isLandlord]_vars

C7_Witness ==
    /\ ev.op = "gameOver"
    /\ ev.threw = "none"
    /\ \E i \in Seats : players[i].isLandlord

(* C8: idempotent restart.  A restart that directly follows a restart      *)
(* leaves players, hands, tablePoker, lastShotPlayer, whoseTurn and the    *)
(* multiplier as the first one left them.                                  *)
Session == <<players, tablePoker, lastShotPlayer, whoseTurn, state.room.multiple>>

C8_RestartIdempotent ==
    [][(ev.op = "restart" /\ ev'.op = "restart" /\ ev'.again) => Session' = Session]_vars

C8_Witness ==
    /\ ev.op = "restart"
    /\ ev.again
    /\ msgCount > 1
    /\ state.room # NoRoom

(* C9: restart empties hands and trick, sets the multiplier to 1 and keeps *)
(* the uid and name of the player at every seat.                           *)
C9_RestartKeepsIdentities ==
    [][(ev'.op = "restart" /\ state.room # NoRoom) =>
          /\ \A i \in Seats : /\ players'[i].uid = players[i].uid
                              /\ players'[i].name = players[i].name
                              /\ players'[i].pokerInHand = EmptyBag
          /\ tablePoker' = <<>>
          /\ lastShotPlayer' = Null
          /\ state'.room.multiple = 1]_vars

(* C10: a pass (a play result with no cards) leaves tablePoker,            *)
(* lastShotPlayer and the three hands unchanged.  As claimed, whoseTurn    *)
(* then always advances to the seat after the passer.                      *)
PassStep == PlayStep /\ ev'.packet.pokers = <<>>
TrickAndHandsKept ==
    /\ tablePoker' = tablePoker
    /\ lastShotPlayer' = lastShotPlayer
    /\ \A i \in Seats : players'[i].pokerInHand = players[i].pokerInHand

EmptyingPlay ==
    /\ PlayStep
    /\ ActingSeat \in Seats
    /\ ev'.threw \in {"none", "room"}
    /\ ev'.packet.pokers # <<>>
    /\ HandCount(ActingSeat) > 0
    /\ BagCardinality(players'[ActingSeat].pokerInHand) = 0
RoundOverPending == \E i \in DOMAIN timers : timers[i].kind = "gameOver"
StartPlayPending == Cardinality({i \in DOMAIN timers : timers[i].kind = "startPlay"})

JoinStep == MsgStep /\ ev'.op = "RSP_JOIN_ROOM"
LocalIndex(list) == (CHOOSE i \in DOMAIN list : list[i].uid = LocalUid) - 1
SeatHolds(ps, seat, info) == ps[seat].uid = info.uid /\ ps[seat].name = info.name

C12_JoinSeatMapping ==
    [][(JoinStep /\ \E i \in DOMAIN ev'.packet.players : ev'.packet.players[i].uid = LocalUid) =>
          LET list == ev'.packet.players
              i == LocalIndex(list)
          IN /\ SeatHolds(players', 0, list[i + 1])
             /\ SeatHolds(players', 1, list[((i + 1) % 3) + 1])
             /\ SeatHolds(players', 2, list[((i + 2) % 3) + 1])
             /\ Cardinality({players'[k].uid : k \in Seats}) = 3]_vars

(* C13: a deal message whose hand does not hold exactly 17 cards is        *)
(* rejected: no hand, whoseTurn or bidding prompt is changed by it.        *)
DealStep == MsgStep /\ ev'.op = "RSP_DEAL_POKER"

C13_ShortDealRejected ==
    [][(DealStep /\ Len(ev'.packet.pokers) # HandSize) =>
          /\ \A i \in Seats : players'[i].pokerInHand = players[i].pokerInHand
          /\ whoseTurn' = whoseTurn
          /\ state' = state]_vars

(* C14: a local play is never applied before the server confirms it.  As   *)
(* claimed: the submit of a local play only sends a play request and       *)
(* leaves Hand[0], tablePoker, lastShotPlayer and whoseTurn unchanged, and *)
(* Hand[0] loses cards only in a step that processes the server's play     *)
(* result for the local seat.                                              *)
SubmitStep == MsgStep /\ ev'.op = "submitPlay"
PlaySent == ev'.sent = <<"REQ_SHOT_POKER">>
LocalHandLoses ==
    \E c \in DOMAIN players[0].pokerInHand :
        CopiesIn(c, players'[0].pokerInHand) < CopiesIn(c, players[0].pokerInHand)
SubmitOnlySends ==
    (SubmitStep /\ PlaySent) =>
        /\ players' = players
        /\ tablePoker' = tablePoker
        /\ lastShotPlayer' = lastShotPlayer
        /\ whoseTurn' = whoseTurn
LocalPlayConfirmed ==
    /\ PlayStep
    /\ ActingSeat = 0
    /\ players[0].pokerInHand (-) players'[0].pokerInHand
           \sqsubseteq BagOfSeq(ev'.packet.pokers)

C14_HandLosesOnlyByPlayResult ==
    [][SubmitOnlySends /\ (LocalHandLoses => LocalPlayConfirmed)]_vars

(* C14, amended: the submit of a local play only sends a play request and  *)
(* leaves Hand[0], tablePoker, lastShotPlayer and whoseTurn unchanged;     *)
(* apart from restart and the game-over cleanup, which empty all hands,    *)
(* Hand[0] loses cards only in a step that processes the server's play     *)
(* result for the local seat, and then only cards of that result.          *)
C14_NoOptimisticPlay ==
    [][/\ SubmitOnlySends
       /\ (LocalHandLoses /\ ev'.op \notin {"restart", "gameOver"}) => LocalPlayConfirmed]_vars

C14_Witness ==
    /\ ev.op = "submitPlay"
    /\ ev.sent = <<"REQ_SHOT_POKER">>
    /\ \A c \in Range(ev.packet.pokers) : BagIn(c, players[0].pokerInHand)
    /\ HandCount(0) >= HandSize - 1
    /\ played = EmptyBag

(* C15: an illegal local play (the rule module reports the combination     *)
(* illegal, or the cards do not beat the non-empty trick the prompt asked  *)
(* to beat) is rejected locally: no request is sent and the session is     *)
(* left unchanged.                                                         *)
IllegalSubmit ==
    /\ SubmitStep
    /\ \/ ~ev'.packet.legal
       \/ prompted[2] # <<>> /\ ~ev'.packet.beats

C15_IllegalPlayNotSent ==
    [][IllegalSubmit =>
          /\ ev'.sent = <<>>
          /\ UNCHANGED <<players, tablePoker, tablePokerPic, lastShotPlayer, whoseTurn,
                         state, timers, prompted, played, aside>>]_vars

C15_Witness ==
    /\ ev.op = "submitPlay"
    /\ ev.packet.legal
    /\ ~ev.packet.beats
    /\ ev.sent = <<>>
    /\ prompted # NoPrompt
    /\ prompted[2] # <<>>
    /\ BagIn(1, players[0].pokerInHand)

(* C16: stale timers are no-ops.  A timed effect (the bottom-card reveal,  *)
(* the local-turn prompt, the game-over callback) that was scheduled       *)
(* before a restart or a join result arrived and fires after it changes no *)
(* session state (checked once the cards are dealt).                       *)
TimerFired == ev'.fired # NoTimer /\ Len(timers') < Len(timers)

C16_StaleTimerNoOp ==
    [][(TimerFired /\ ev'.fired.stale /\ Dealt) =>
          UNCHANGED <<players, tablePoker, lastShotPlayer, whoseTurn, state>>]_vars

(* C17: Socket.connect invokes the open callback at most once per          *)
(* connection attempt, and never before connect returns: the step that     *)
(* calls connect runs no open callback, no attempt is opened twice and     *)
(* only attempts that were made are opened.                                *)
C17_OpenOncePerAttempt ==
    [][/\ connects' # connects => opened' = opened
       /\ \A i, j \in DOMAIN opened' :
             i # j => opened'[i].attempt # opened'[j].attempt
       /\ \A i \in DOMAIN opened' : opened'[i].attempt \in 1..connects']_vars

C17_Witness ==
    /\ connects = MaxConnects
    /\ Len(opened) = MaxConnects
    /\ timeouts = <<>>

(* C18: the responses to requests sent through Socket.send reach the       *)
(* message handler in the order the requests were sent.                    *)
C18_ResponsesInOrder ==
    \A i, j \in DOMAIN delivered : i < j => delivered[i] < delivered[j]

C18_Witness ==
    /\ Len(delivered) = MaxRequests
    /\ ev.op = "UNKNOWN PACKET"
    /\ ev.packet.type = "SER_LOGIN"
    /\ ev.packet.n = MaxRequests

(* C19: after a transport error made the client connect again, an          *)
(* incremental event (deal, bid result) requested on the new connection    *)
(* reaches the message handler only after the open callback of that        *)
(* connection has sent the join request.                                   *)
DeliverStep == ev'.op = "UNKNOWN PACKET" /\ Len(delivered') > Len(delivered)
Incremental == {"SER_DEAL_POKER", "SER_CALL_SCORE"}
JoinSentOn(conn) ==
    \E k \in DOMAIN opened :
        /\ opened[k].attempt = conn
        /\ \E m \in DOMAIN opened[k].sent : opened[k].sent[m] = "REQ_JOIN_ROOM"

ErrorStep == MsgStep /\ ev'.op = "onerror"

C20_ErrorKeepsMatch ==
    [][ErrorStep =>
          UNCHANGED <<players, tablePoker, lastShotPlayer, whoseTurn, state>>]_vars

C20_Witness ==
    /\ ev.op = "onerror"
    /\ Dealt
    /\ state.room # NoRoom
    /\ connects = 2

(* C21: an inbound message whose code onmessage does not know is ignored:  *)
(* in every state it arrives in, players, hands, tablePoker and its        *)
(* sprites, lastShotPlayer, whoseTurn, the observer state, the pending     *)
(* timer events and the open prompt stay as they were, nothing is sent and *)
(* no error is raised.                                                     *)
UnknownStep == MsgStep /\ ev'.op = "UNKNOWN PACKET"

C21_UnknownCodeIgnored ==
    [][UnknownStep =>
          /\ UNCHANGED <<players, tablePoker, tablePokerPic, lastShotPlayer, whoseTurn,
                         state, timers, prompted, sockvars>>
          /\ ev'.threw = "none"
          /\ ev'.sent = <<>>]_vars

C21_Witness ==
    /\ ev.op = "UNKNOWN PACKET"
    /\ msgCount > 0
    /\ Dealt
    /\ timers # <<>>
    /\ \E i \in Seats : players[i].isLandlord

(* C22: the multiplier is the server's.  A bid result or a play result     *)
(* (a pass included) that onmessage handles to its end leaves              *)
(* room.multiple equal to the 'multiple' of the message; every other step  *)
(* but the join result, which installs the room it carries, leaves the     *)
(* room and its multiplier as they were.                                   *)
Accepted == ev'.threw = "none"
SetsMultiple == ev'.op \in {"RSP_CALL_SCORE", "RSP_SHOT_POKER"}

C22_MultiplierFromMessage ==
    [][/\ (MsgStep /\ SetsMultiple /\ Accepted) =>
              state'.room.multiple = ev'.packet.multiple
       /\ (~SetsMultiple /\ ev'.op # "RSP_JOIN_ROOM") => state'.room = state.room]_vars

C22_Witness ==
    /\ ev.op = "RSP_SHOT_POKER"
    /\ ev.threw = "none"
    /\ ev.packet.pokers # <<>>
    /\ state.room # NoRoom
    /\ state.room.multiple = ev.packet.multiple
    /\ \E i \in Seats : HandCount(i) = HandSize - 1

(* C23: a play result that names a card its seat does not hold is          *)
(* rejected: the three hands, tablePoker and lastShotPlayer stay as they   *)
(* were.  The local seat holds the cards of its hand; a peer, whose hand   *)
(* is card backs, holds any card while a card back is left.                *)
Holds(seat, pid) ==
    \/ BagIn(pid, players[seat].pokerInHand)
    \/ seat # 0 /\ BagIn(CardBack, players[seat].pokerInHand)

NamesUnheldCard ==
    /\ ActingSeat \in Seats
    /\ \E i \in DOMAIN ev'.packet.pokers : ~Holds(ActingSeat, ev'.packet.pokers[i])

C23_UnheldCardRejected ==
    [][(PlayStep /\ Dealt /\ NamesUnheldCard) =>
          /\ Hands' = Hands
          /\ tablePoker' = tablePoker
          /\ lastShotPlayer' = lastShotPlayer]_vars

(* C24: the deal is for the local seat only.  A deal message of 17 cards   *)
(* addressed to the local uid leaves Hand[0] holding exactly those 17      *)
(* cards, whoseTurn at the seat of that uid and the bid prompt open        *)
(* exactly when that seat is 0; a deal message addressed to another uid    *)
(* changes nothing of the session.                                         *)
LocalDeal == DealStep /\ ev'.packet.uid = players[0].uid

C24_DealSetsLocalHand ==
    [][/\ (LocalDeal /\ Len(ev'.packet.pokers) = HandSize) =>
              /\ Hands'[0] = BagOfSeq(ev'.packet.pokers)
              /\ whoseTurn' = uidToSeat(players, ev'.packet.uid)
              /\ state'.rob = (whoseTurn' = 0)
       /\ (DealStep /\ ~LocalDeal) =>
              UNCHANGED <<players, tablePoker, tablePokerPic, lastShotPlayer, whoseTurn,
                          state, timers, prompted>>]_vars

(* C25: when the reveal scheduled by a bid result naming landlord L runs   *)
(* to its end, L owns the trick (lastShotPlayer = L) and the trick is      *)
(* empty, and the local player is prompted to play, with nothing to beat,  *)
(* exactly when L is seat 0 (checked, as C6, for a match whose cards were  *)
(* dealt before the bid result).                                           *)
RevealCompleted ==
    /\ RevealFired
    /\ whoseTurn \in Seats
    /\ Len(tablePoker) = BottomSize
    /\ ev'.threw = "none"

C25_LandlordLeads ==
    [][(RevealCompleted /\ Dealt /\ CardBack \notin tablePokerPic
            /\ ev'.fired.by = "bid" /\ ev'.fired.seat \in Seats) =>
          LET L == ev'.fired.seat
          IN /\ lastShotPlayer' = L
             /\ tablePoker' = <<>>
             /\ (ev'.prompt # NoPrompt) = (L = 0)
             /\ (L = 0) => ev'.prompt = <<"play", <<>>>>]_vars

(* C26: resume.  When the reveal scheduled by a join result that carries 3 *)
(* bottom cards B and the uid of an assigned landlord, seated at L, runs   *)
(* to its end, Hand[L] grows by exactly B and no other hand changes.       *)
C26_ResumeRevealGoesToLandlord ==
    [][(RevealCompleted /\ ev'.fired.by = "join" /\ ev'.fired.seat \in Seats) =>
          LET L == ev'.fired.seat
              B == ev'.fired.cards
          IN /\ Hands'[L] = Hands[L] (+) BagOfSeq(B)
             /\ \A i \in Seats \ {L} : Hands'[i] = Hands[i]]_vars

(* C27: free lead.  Whenever the local player is prompted to play, the     *)
(* cards to beat are none exactly when seat 0 owns the trick               *)
(* (lastShotPlayer = 0), and are tablePoker otherwise.                     *)
PlayPrompted == ev'.op # "submitPlay" /\ ev'.prompt # NoPrompt

C27_FreeLeadIffOwner ==
    [][PlayPrompted =>
          ev'.prompt = <<"play", IF lastShotPlayer' = 0 THEN <<>> ELSE tablePoker'>>]_vars

(* C28: a game-over message schedules exactly one gameOver event, 2000 ms  *)
(* later; when that event fires, 'ready' is false and the three hands are *)
(* empty.                                                                  *)
GameOverStep == MsgStep /\ ev'.op = "RSP_GAME_OVER"
GameOverFired == TimerFired /\ ev'.op = "gameOver"
HandsCleared == \A i \in Seats : HandCount(i) = 0

C28_GameOverCleans ==
    [][/\ GameOverStep =>
              /\ timers' = Append(timers, Timer("gameOver", "over", whoseTurn', <<>>))
              /\ Delay("gameOver") = GameOverDelay
       /\ GameOverFired => (~state'.ready /\ HandsCleared')]_vars

(* C29: the next match starts from initial values.  When the deal that     *)
(* follows the gameOver cleanup is handled, it finds tablePoker empty,     *)
(* lastShotPlayer unset, the three hands empty and no seat flagged as      *)
(* landlord.                                                               *)
AfterGameOver == ev.op = "gameOver" /\ ev.threw = "none" /\ ev.fired # NoTimer

C29_NextMatchStartsClean ==
    [][(AfterGameOver /\ LocalDeal) =>
          /\ tablePoker = <<>>
          /\ lastShotPlayer = Null
          /\ HandsCleared
          /\ \A i \in Seats : ~players[i].isLandlord]_vars

(* C30: in every reachable state at most one seat has isLandlord true.     *)
Landlords == {i \in Seats : players[i].isLandlord}

C30_OneLandlord == Cardinality(Landlords) <= 1

(* C31: the bottom cards are awarded at most once per match.  The hands    *)
(* are emptied between matches and no deal holds a bottom card, so the     *)
(* three hands together never hold a bottom card more than once (checked   *)
(* while every seat holds cards).                                          *)
C31_BottomAwardedOnce ==
    Dealt => \A c \in Range(BottomCards) :
                 CopiesIn(c, Hands[0] (+) Hands[1] (+) Hands[2]) <= 1

(* C32: whoseTurn is a seat, 0, 1 or 2, in every reachable state.          *)
C32_WhoseTurnIsSeat == whoseTurn \in Seats

(* C33: card counts.  Once the cards are dealt no hand holds more than     *)
(* 17 + 3 cards, and the hands and the cards played hold the 51 cards of   *)
(* the deal, plus the 3 bottom cards once they are in a hand.              *)
C33_CardCounts ==
    Dealt =>
        /\ \A i \in Seats : HandCount(i) <= HandSize + BottomSize
        /\ HandCount(0) + HandCount(1) + HandCount(2) + BagCardinality(played)
              = 3 * HandSize + (IF aside THEN 0 ELSE BottomSize)

(* C34: the local player is prompted to play only when the turn is at seat *)
(* 0, and a timer event does not prompt again for a turn at seat 0 that    *)
(* the step before it has already prompted for.                            *)
PromptedJustBefore == ev.op # "submitPlay" /\ ev.prompt # NoPrompt /\ whoseTurn = 0

C34_PromptOnlyOnLocalTurn ==
    [][PlayPrompted =>
          /\ whoseTurn' = 0
          /\ ~(TimerFired /\ PromptedJustBefore)]_vars

(* C35: the result the gameOver callback announces is that of the winner   *)
(* the game-over message named: "landlord wins" exactly when the seat of   *)
(* that winner is flagged as landlord, whatever was handled in between.    *)
Announced == GameOverFired /\ ev'.alert # "none"

C35_AnnouncesWinner ==
    [][(Announced /\ ev'.fired.seat \in Seats) =>
          (ev'.alert = "landlord wins") = players[ev'.fired.seat].isLandlord]_vars

(* C36: whenever handleShotPoker (after it has taken the played cards from *)
(* the hand) or cleanWorld (in the gameOver callback) goes through         *)
(* tablePoker to destroy the cards on the table, every card of tablePoker  *)
(* has its sprite in tablePokerPic.                                        *)
ShotDiscards ==
    /\ PlayStep
    /\ ActingSeat \in Seats
    /\ ev'.packet.pokers # <<>>
    /\ ~Threw(removeShot(Cur, ActingSeat, SortPokers(ev'.packet.pokers), 1))

CleanDiscards == GameOverFired /\ whoseTurn # -1

C36_TableCardsHaveSprites ==
    [][(ShotDiscards \/ CleanDiscards) => Range(tablePoker) \subseteq tablePokerPic]_vars

(* C37: reconnect makes progress.  After the channel has reported an error *)
(* and Game.onerror has called connect, onopen runs again and sends the    *)
(* join request again.                                                     *)
ErrorReported == ev.op = "onerror"
JoinedAgain == ev.op = "onopen" /\ \E i \in DOMAIN ev.sent : ev.sent[i] = "REQ_JOIN_ROOM"

C37_ReconnectProgress == ErrorReported ~> JoinedAgain


(***************************************************************************)
(* C38: in the observer store, for every key other than 'countdown',       *)
(* set(key, v) followed by get(key) returns v and invokes each subscriber  *)
(* of that key exactly once with the new value; set('a.b', v) updates      *)
(* field b of state a and notifies the subscribers of 'a'; set and         *)
(* subscribe of 'countdown' change nothing and notify nobody.              *)
(***************************************************************************)
ObsDid(op) == observer' # observer /\ observer'.last.op = op

NotifiedOnce(o, key) ==
    /\ Len(o.calls) = Len(o.subscribers[key])
    /\ \A i \in DOMAIN o.calls :
          o.calls[i] = [cb |-> o.subscribers[key][i], val |-> o.state[key]]

SetThenGet ==
    LET key == observer'.last.key
    IN (ObsDid("set") /\ Len(key) = 1 /\ key # Countdown) =>
          /\ ~observer'.threw
          /\ get(observer', key) = observer'.last.val
          /\ NotifiedOnce(observer', key)

SetField ==
    LET key == observer'.last.key
    IN (ObsDid("set") /\ Len(key) = 2) =>
          /\ ~observer'.threw
          /\ observer'.state[<<key[1]>>].f[key[2]] = observer'.last.val.n
          /\ NotifiedOnce(observer', <<key[1]>>)

CountdownIgnored ==
    (ObsDid("set") \/ ObsDid("subscribe")) /\ observer'.last.key = Countdown =>
          /\ observer'.state = observer.state
          /\ observer'.subscribers = observer.subscribers
          /\ observer'.calls = <<>>

C38_ObserverStore == [][SetThenGet /\ SetField /\ CountdownIgnored]_vars

====
